---- MODULE Spec2Model ----
(***************************************************************************)
(* Model of the GlobalProtect desktop front-end (src-tauri/src/lib.rs):    *)
(* the VPN session supervisor (connect_vpn, disconnect_vpn,                *)
(* get_vpn_status), the status monitor thread, the tray / window handlers  *)
(* and the exit handlers, together with the part of the operating system   *)
(* they act on (the openconnect processes, the tun interface, sudo).       *)
(***************************************************************************)
EXTENDS Naturals, Integers, FiniteSets, Sequences, TLC

\* Number of children the supervisor may spawn in one run of the model.
MaxSpawn == 2

\* Number of transitions and notifications of the monitor that are recorded.
MaxNotes == 3

\* Process ids of the children spawned by connect_vpn.
Pids == 1..MaxSpawn

\* An openconnect process left over from an earlier run of the application.
Leftover == MaxSpawn + 1

\* Command-handler threads that run connect_vpn concurrently.
ConnThreads == {"c1", "c2"}

VARIABLES
    app,        \* "running", "exited" (event loop ended) or "crashed"
    procs,      \* openconnect processes alive in the process table
    tun,        \* TRUE iff `ip addr show` lists an interface containing "tun"
    permitted,  \* TRUE iff sudoers lets `sudo -n /usr/bin/pkill` run
    nextPid,    \* pid of the next child to be spawned
    child,      \* VpnState.child : Option<Child>, as a set of at most one pid
    mutex,      \* owner of the VpnState.child mutex, or "free"
    killReq,    \* pids on which Child::kill() has been called
    logFile,    \* <app-data>/logs/vpn.log : "absent", "empty" or "data"
    cpc,        \* connect_vpn: position of each command thread
    cprior,     \* connect_vpn: the handle taken out of the state (existing)
    cchild,     \* connect_vpn: the local `child` returned by spawn()
    cres,       \* connect_vpn: result returned by the last call
    dpc,        \* disconnect_vpn: position
    dres,       \* disconnect_vpn: result returned by the last call
    dsteps,     \* disconnect_vpn: what the current or last call has done
    spawnedSinceHard, \* a child was spawned after disconnect_vpn's hard kill
    beganSinceReturn, \* a connect_vpn call began after disconnect_vpn returned
    spc,        \* get_vpn_status: position
    sPgrep,     \* get_vpn_status: outcome of its pgrep probe
    sIp,        \* get_vpn_status: outcome of its ip probe
    sres,       \* get_vpn_status: result returned by the last call
    mpc,        \* monitor thread: position in the loop body
    mPgrep,     \* monitor thread: outcome of this tick's pgrep probe
    mIp,        \* monitor thread: outcome of this tick's ip probe
    mFresh,     \* this tick's probes ran after disconnect_vpn returned
    last_connected, \* monitor thread: the retained previous state
    text,       \* text of the tray "status" menu item
    icon,       \* tray icon currently shown
    tickCur,    \* state derived by the last completed tick
    tickPrev,   \* state derived by the tick before it (FALSE at start)
    tickIcon,   \* icon update of the last completed tick
    tickNote,   \* notification title dispatched by the last completed tick
    tickBody,   \* notification body dispatched by the last completed tick
    edges,      \* ticks so far whose derived state differed from the last
    notes,      \* titles of the notifications dispatched so far, in order
    config,     \* <app-data>/vpn_config.json
    ui,         \* position of the main (event loop) thread
    uiKills,    \* pkill commands issued by the exit handlers, in order
    win,        \* main window: "visible" or "hidden"
    passwords,  \* the values of config.password the front-end passes
    stdinOpen,  \* children whose stdin write end the application holds open
    stdinFed,   \* children whose stdin was sent the password and a newline
    lpc,        \* clear_logs: position
    lres,       \* clear_logs: result returned by the last call
    cleared,    \* clear_logs calls that returned Ok since the log was written
    rpc,        \* read_logs: position
    rres,       \* read_logs: result returned by the last call
    inflightHit \* children signalled by disconnect_vpn's pkills while the
                \* connect_vpn call that spawned them had not yet returned

supVars  == <<procs, tun, permitted, nextPid, child, mutex, killReq, logFile>>
connVars == <<cpc, cprior, cchild, cres>>
discVars == <<dpc, dres, dsteps, spawnedSinceHard, beganSinceReturn>>
statVars == <<spc, sPgrep, sIp, sres>>
monVars  == <<mpc, mPgrep, mIp, mFresh, last_connected, text, icon,
              tickCur, tickPrev, tickIcon, tickNote, tickBody, edges, notes>>
uiVars   == <<ui, uiKills, win>>
pipeVars == <<passwords, stdinOpen, stdinFed>>
logVars  == <<lpc, lres, cleared, rpc, rres>>
vars == <<app, supVars, connVars, discVars, statVars, monVars, config, uiVars,
          pipeVars, logVars, inflightHit>>

----------------------------------------------------------------------------
(* The operating system.                                                   *)

\* Child::kill() sends SIGKILL to the child (the `sudo` wrapper) and returns
\* an io::Result the callers discard: the process may or may not be gone.
ChildKillOutcomes(ps, h) == {ps, ps \ h}

\* `sudo -n /usr/bin/pkill -f openconnect` (SIGTERM): nothing when sudo
\* refuses; otherwise every matching process is signalled and each may
\* terminate at once or keep unwinding.
SoftKillOutcomes(ps, ok) == IF ok THEN SUBSET ps ELSE {ps}

\* `sudo -n /usr/bin/pkill -9 -f openconnect` (SIGKILL as root): nothing
\* when sudo refuses; otherwise no matching process survives.
HardKillOutcomes(ps, ok) == IF ok THEN {{}} ELSE {ps}

\* What a pkill command does to the process table.
PkillOutcomes(cmd, ps, ok) == IF cmd = "soft" THEN SoftKillOutcomes(ps, ok)
                              ELSE HardKillOutcomes(ps, ok)

\* Outcome of running a probe command: Command::output() fails ("err") or
\* reports what is true of the system.
ProbeOutcomes(truth) == {IF truth THEN "yes" ELSE "no", "err"}

----------------------------------------------------------------------------
(* connect_vpn (lib.rs 30-95).  The whole body runs under the mutex.       *)

\* state.child.lock(): the guard is granted only while nobody holds it.
\* A lock that is granted while another thread holds it.
MutLockGranted(m) == TRUE

LockGranted(m) == m = "free"

\* child_guard.take(): the Option left behind in the state.
\* A take() that leaves the handle in place (as_mut() in its stead).
MutTakeLeaves(h) == h

TakeLeaves(h) == {}

\* `if let Some(mut existing) = ... { let _ = existing.kill(); }`: the pids
\* on which kill() has been called afterwards.
\* The existing handle dropped without kill().
MutKillRequested(kr, h) == kr

KillRequested(kr, h) == kr \cup h

\* Errors of the logging set-up, in the order the code meets them, and the
\* log file each leaves behind (create(true).append(true) creates the file;
\* the header line is appended before try_clone()).
PrepErrors == {"ErrAppDir", "ErrLogDir", "ErrLogOpen", "ErrClone"}

LogAfterPrep(r, lf) == IF r \in {"ErrAppDir", "ErrLogDir", "ErrLogOpen"}
                       THEN lf ELSE "data"

\* Values of VpnConfig.password (line 17): Option<String>.
Passwords == {"absent", "present"}

\* A Child that goes out of scope closes the pipe ends it still owns
\* (`existing` at line 41, `child` at line 121): it no longer holds a
\* stdin write end open.
DropHandle(open, h) == open \ h

\* Lines 76-82: stdin(Stdio::piped()); the spawned Child owns the write end.
SpawnPiped(open, p) == open \cup {p}

\* Lines 85-90: child.stdin.take() runs only inside `if let Some(password)`;
\* the ChildStdin taken is dropped, and so closed, at the end of the block.
StdinAfterPassword(open, h, pw) == IF pw = "present" THEN open \ h ELSE open

\* Line 88: writeln!(stdin, "{}", password), its result discarded; the
\* write reaches the child unless the child is already gone (EPIPE).
FedAfterPassword(fed, h, pw, alive) ==
    IF pw = "present" /\ alive THEN fed \cup h ELSE fed

\* Lines 36-41: lock, take the existing handle, kill it.
ConnectBegin(t) ==
    /\ app = "running"
    /\ cpc[t] = "idle"
    /\ nextPid <= MaxSpawn
    /\ LockGranted(mutex)
    /\ mutex' = t
    /\ cprior' = [cprior EXCEPT ![t] = child]
    /\ child' = TakeLeaves(child)
    /\ killReq' = KillRequested(killReq, child)
    /\ procs' \in ChildKillOutcomes(procs, child)
    /\ cchild' = [cchild EXCEPT ![t] = {}]
    /\ cres' = [cres EXCEPT ![t] = "none"]
    /\ cpc' = [cpc EXCEPT ![t] = "prep"]
    /\ beganSinceReturn' = TRUE
    /\ stdinOpen' = DropHandle(stdinOpen, child)
    /\ UNCHANGED <<inflightHit, logVars, passwords, stdinFed, app, tun,
                   permitted, nextPid, logFile, dpc, dres, dsteps,
                   spawnedSinceHard, statVars, monVars, config, uiVars>>

\* Lines 54-78: app-data path, log directory, log file, header, try_clone.
\* A `?` returns the error; the guard is dropped on return.
ConnectPrep(t) ==
    /\ app = "running"
    /\ cpc[t] = "prep"
    /\ \E r \in PrepErrors \cup {"ok"} :
         /\ logFile' = LogAfterPrep(r, logFile)
         /\ cleared' = IF LogAfterPrep(r, logFile) = logFile THEN cleared
                        ELSE "no"
         /\ IF r = "ok"
            THEN /\ cpc' = [cpc EXCEPT ![t] = "spawn"]
                 /\ UNCHANGED <<cres, mutex>>
                 /\ cprior' = cprior
            ELSE /\ cpc' = [cpc EXCEPT ![t] = "idle"]
                 /\ cres' = [cres EXCEPT ![t] = r]
                 /\ cprior' = [cprior EXCEPT ![t] = {}]
                 /\ mutex' = "free"
    /\ UNCHANGED <<inflightHit, lpc, lres, rpc, rres, pipeVars, app, procs,
                   tun, permitted, nextPid, child, killReq, cchild, discVars,
                   statVars, monVars, config, uiVars>>

\* Lines 80-82: cmd.spawn(), or its error returned through `?`.
ConnectSpawn(t) ==
    /\ app = "running"
    /\ cpc[t] = "spawn"
    /\ \/ /\ nextPid <= MaxSpawn
          /\ procs' = procs \cup {nextPid}
          /\ cchild' = [cchild EXCEPT ![t] = {nextPid}]
          /\ nextPid' = nextPid + 1
          /\ spawnedSinceHard' = TRUE
          /\ stdinOpen' = SpawnPiped(stdinOpen, nextPid)
          /\ cpc' = [cpc EXCEPT ![t] = "store"]
          /\ UNCHANGED <<cres, cprior, mutex>>
       \/ /\ cpc' = [cpc EXCEPT ![t] = "idle"]
          /\ cres' = [cres EXCEPT ![t] = "ErrSpawn"]
          /\ cprior' = [cprior EXCEPT ![t] = {}]
          /\ mutex' = "free"
          /\ UNCHANGED <<procs, cchild, nextPid, spawnedSinceHard, stdinOpen>>
    /\ UNCHANGED <<inflightHit, logVars, passwords, stdinFed, app, tun,
                   permitted, child, killReq, logFile, dpc, dres, dsteps,
                   beganSinceReturn, statVars, monVars, config, uiVars>>

\* Lines 84-94: password to stdin, `*child_guard = Some(child)`, Ok(());
\* the locals go out of scope.
ConnectStore(t) ==
    /\ app = "running"
    /\ cpc[t] = "store"
    /\ \E pw \in passwords :
         /\ stdinOpen' = StdinAfterPassword(stdinOpen, cchild[t], pw)
         /\ stdinFed' = FedAfterPassword(stdinFed, cchild[t], pw,
                                         cchild[t] \subseteq procs)
    /\ child' = cchild[t]
    /\ cres' = [cres EXCEPT ![t] = "Ok"]
    /\ cpc' = [cpc EXCEPT ![t] = "idle"]
    /\ cprior' = [cprior EXCEPT ![t] = {}]
    /\ cchild' = [cchild EXCEPT ![t] = {}]
    /\ mutex' = "free"
    /\ inflightHit' = inflightHit \ cchild[t]
    /\ UNCHANGED <<logVars, passwords, app, procs, tun, permitted, nextPid,
                   killReq, logFile, discVars, statVars, monVars, config,
                   uiVars>>

----------------------------------------------------------------------------
(* disconnect_vpn (lib.rs 97-124).  The pkill pair runs outside the mutex. *)

\* The i-th pkill of disconnect_vpn (lines 100-105 and 110-116).
\* A disconnect_vpn whose pkills are issued in the opposite order.
MutDiscCmd(i) == IF i = 1 THEN "hard" ELSE "soft"

DiscCmd(i) == IF i = 1 THEN "soft" ELSE "hard"

\* The processes a pkill of disconnect_vpn signals that were spawned by a
\* connect_vpn call still under way: pkill matches every openconnect
\* process alive, and signals them when sudo permits it.
Signalled(ps, ok) ==
    IF ok THEN ps \cap UNION {cchild[t] : t \in ConnThreads} ELSE {}

\* Lines 100-105: the soft kill.
DiscSoft ==
    /\ app = "running"
    /\ dpc = "idle"
    /\ procs' \in PkillOutcomes(DiscCmd(1), procs, permitted)
    /\ dpc' = "sleep"
    /\ dres' = "none"
    /\ dsteps' = <<DiscCmd(1)>>
    /\ inflightHit' = inflightHit \cup Signalled(procs, permitted)
    /\ UNCHANGED <<logVars, pipeVars, app, tun, permitted, nextPid, child,
                   mutex, killReq, logFile, connVars, spawnedSinceHard,
                   beganSinceReturn, statVars, monVars, config, uiVars>>

\* Line 107: the 300 ms pause.
DiscSleep ==
    /\ app = "running"
    /\ dpc = "sleep"
    /\ dpc' = "hard"
    /\ dsteps' = Append(dsteps, "sleep")
    /\ UNCHANGED <<inflightHit, logVars, pipeVars, app, supVars, connVars,
                   dres, spawnedSinceHard, beganSinceReturn, statVars,
                   monVars, config, uiVars>>

\* Lines 110-116: the hard kill.
DiscHard ==
    /\ app = "running"
    /\ dpc = "hard"
    /\ procs' \in PkillOutcomes(DiscCmd(2), procs, permitted)
    /\ spawnedSinceHard' = FALSE
    /\ dsteps' = Append(dsteps, DiscCmd(2))
    /\ dpc' = "sweep"
    /\ inflightHit' = inflightHit \cup Signalled(procs, permitted)
    /\ UNCHANGED <<logVars, pipeVars, app, tun, permitted, nextPid, child,
                   mutex, killReq, logFile, connVars, dres, beganSinceReturn,
                   statVars, monVars, config, uiVars>>

\* Lines 118-123: lock, take the handle, kill it, Ok(()).
DiscSweep ==
    /\ app = "running"
    /\ dpc = "sweep"
    /\ LockGranted(mutex)
    /\ child' = TakeLeaves(child)
    /\ killReq' = KillRequested(killReq, child)
    /\ procs' \in ChildKillOutcomes(procs, child)
    /\ dpc' = "idle"
    /\ dres' = "Ok"
    /\ dsteps' = Append(dsteps, "clear")
    /\ mFresh' = FALSE
    /\ beganSinceReturn' = FALSE
    /\ stdinOpen' = DropHandle(stdinOpen, child)
    /\ UNCHANGED <<inflightHit, logVars, passwords, stdinFed, app, tun,
                   permitted, nextPid, mutex, logFile, connVars,
                   spawnedSinceHard, statVars, mpc, mPgrep, mIp,
                   last_connected, text, icon, tickCur, tickPrev, tickIcon,
                   tickNote, tickBody, edges, notes, config, uiVars>>

----------------------------------------------------------------------------
(* get_vpn_status (lib.rs 126-149).  It takes the state but never uses it. *)

\* The value returned for the outcomes of the two probes; the ip probe is
\* run only when pgrep reported a match ("notrun" otherwise).
\* A get_vpn_status that does not search the ip output for "tun".
MutGetVpnStatus(pg, ip) ==
    IF pg = "err" THEN "Err"
    ELSE IF pg = "no" THEN "OkFalse"
    ELSE IF ip = "err" THEN "Err"
    ELSE "OkTrue"

GetVpnStatus(pg, ip) ==
    IF pg = "err" THEN "Err"
    ELSE IF pg = "no" THEN "OkFalse"
    ELSE IF ip = "err" THEN "Err"
    ELSE IF ip = "yes" THEN "OkTrue" ELSE "OkFalse"

\* Line 127: the `_state` argument is never used; the call does not wait
\* for the mutex, whoever holds it.
\* A get_vpn_status that begins with state.child.lock().
MutStatusProceeds(m) == m = "free"

StatusProceeds(m) == TRUE

\* Lines 129-137: pgrep -f openconnect; an error or no match returns.
StatusPgrep ==
    /\ app = "running"
    /\ spc = "idle"
    /\ StatusProceeds(mutex)
    /\ \E pg \in ProbeOutcomes(procs # {}) :
         /\ sPgrep' = pg
         /\ sIp' = "notrun"
         /\ IF pg = "yes"
            THEN spc' = "ip" /\ sres' = "none"
            ELSE spc' = "idle" /\ sres' = GetVpnStatus(pg, "notrun")
    /\ UNCHANGED <<inflightHit, logVars, pipeVars, app, supVars, connVars,
                   discVars, monVars, config, uiVars>>

\* Lines 140-148: ip addr show; the output is searched for "tun".
StatusIp ==
    /\ app = "running"
    /\ spc = "ip"
    /\ \E ip \in ProbeOutcomes(tun) :
         /\ sIp' = ip
         /\ sres' = GetVpnStatus(sPgrep, ip)
    /\ spc' = "idle"
    /\ UNCHANGED <<inflightHit, logVars, pipeVars, app, supVars, connVars,
                   discVars, sPgrep, monVars, config, uiVars>>

----------------------------------------------------------------------------
(* save_config (lib.rs 151-164): std::fs::write truncates, then writes.    *)

Portal == "vpn.example.com"

NoFile == [file |-> "nofile", portal |-> "", ne |-> "unset"]

TornFile == [file |-> "torn", portal |-> "", ne |-> "unset"]

\* notifications_enabled: Option<bool> as it is stored in the file.
ConfigFiles == {[file |-> "ok", portal |-> Portal, ne |-> n] :
                    n \in {"unset", "true", "false"}}

SaveConfigTruncate ==
    /\ app = "running"
    /\ config.file # "torn"
    /\ config' = TornFile
    /\ UNCHANGED <<inflightHit, logVars, pipeVars, app, supVars, connVars,
                   discVars, statVars, monVars, uiVars>>

SaveConfigWrite ==
    /\ app = "running"
    /\ config.file = "torn"
    /\ config' \in ConfigFiles
    /\ UNCHANGED <<inflightHit, logVars, pipeVars, app, supVars, connVars,
                   discVars, statVars, monVars, uiVars>>

----------------------------------------------------------------------------
(* read_logs and clear_logs (lib.rs 196-224).                              *)

NoLogsFound == "No logs found."

\* Failures of the file operations, returned through `?` (lines 198-201,
\* 208, 213-216 and 221).
LogErrors == {"ErrAppDir", "ErrRead", "ErrWrite"}

\* Lines 208: read_to_string of the file as it is.
LogContents(lf) == IF lf = "empty" THEN "" ELSE "contents"

\* Lines 204 and 219: log_path.exists().
LogExists(lf) == lf # "absent"

\* Line 221: std::fs::write(log_path, "") leaves an empty file.
\* A clear_logs that opens the file without truncating it.
MutTruncated(lf) == lf

Truncated(lf) == "empty"

\* Lines 198-206: the path, then exists(); a missing file returns at once.
ReadLogsCheck ==
    /\ app = "running"
    /\ rpc = "idle"
    /\ \E r \in {"ok", "ErrAppDir"} :
         IF r # "ok" THEN rpc' = "idle" /\ rres' = r
         ELSE IF ~LogExists(logFile) THEN rpc' = "idle" /\ rres' = NoLogsFound
         ELSE rpc' = "read" /\ rres' = "none"
    /\ UNCHANGED <<inflightHit, lpc, lres, cleared, pipeVars, app, supVars,
                   connVars, discVars, statVars, monVars, config, uiVars>>

\* Line 208: read_to_string, or its error.
ReadLogsRead ==
    /\ app = "running"
    /\ rpc = "read"
    /\ rres' \in {LogContents(logFile), "ErrRead"}
    /\ rpc' = "idle"
    /\ UNCHANGED <<inflightHit, lpc, lres, cleared, pipeVars, app, supVars,
                   connVars, discVars, statVars, monVars, config, uiVars>>

\* Lines 213-219: the path, then exists(); a missing file returns Ok at once.
ClearLogsCheck ==
    /\ app = "running"
    /\ lpc = "idle"
    /\ \E r \in {"ok", "ErrAppDir"} :
         IF r # "ok" THEN /\ lpc' = "idle" /\ lres' = r
                          /\ UNCHANGED <<logFile, cleared>>
         ELSE IF ~LogExists(logFile)
              THEN /\ lpc' = "idle" /\ lres' = "Ok"
                   /\ logFile' = logFile
                   /\ cleared' = IF cleared = "no" THEN "once" ELSE "twice"
              ELSE /\ lpc' = "write" /\ lres' = "none"
                   /\ UNCHANGED <<logFile, cleared>>
    /\ UNCHANGED <<inflightHit, rpc, rres, pipeVars, app, procs, tun,
                   permitted, nextPid, child, mutex, killReq, connVars,
                   discVars, statVars, monVars, config, uiVars>>

\* Lines 220-223: std::fs::write(log_path, ""), or its error; Ok(()).
ClearLogsWrite ==
    /\ app = "running"
    /\ lpc = "write"
    /\ \E r \in {"Ok", "ErrWrite"} :
         /\ lres' = r
         /\ IF r = "Ok"
            THEN /\ logFile' = Truncated(logFile)
                 /\ cleared' = IF cleared = "no" THEN "once" ELSE "twice"
            ELSE UNCHANGED <<logFile, cleared>>
    /\ lpc' = "idle"
    /\ UNCHANGED <<inflightHit, rpc, rres, pipeVars, app, procs, tun,
                   permitted, nextPid, child, mutex, killReq, connVars,
                   discVars, statVars, monVars, config, uiVars>>

----------------------------------------------------------------------------
(* The status monitor thread (lib.rs 290-366).                             *)

TextInitial == "Status: Disconnected"

\* Lines 297-302: a probe that could not be run counts as false.
IsRunning(pg) == pg = "yes"

HasTun(ip) == ip = "yes"

MonitorConnected(pg, ip) == IsRunning(pg) /\ HasTun(ip)

\* Lines 305-309.
StatusText(c) == IF c THEN "Status: Connected" ELSE "Status: Disconnected x"

\* Line 314: the edge detector.
\* A level-triggered monitor: `if connected`.
MutStatusChanged(c, last) == c

StatusChanged(c, last) == c # last

\* Lines 316-328: the configuration as the monitor reads it, and the flag.
\* A monitor that reads a missing flag as false: unwrap_or(false).
MutNotificationsEnabled(cfg) == cfg.file = "ok" /\ cfg.ne = "true"

NotificationsEnabled(cfg) == IF cfg.file = "ok" THEN cfg.ne # "false" ELSE TRUE

\* Line 332.
\* A monitor that gives every notification the same title.
MutNoteTitle(c) == "VPN Connected"

NoteTitle(c) == IF c THEN "VPN Connected" ELSE "VPN Disconnected"

\* Line 334: the portal named in the body; config_res is None when the
\* file is missing, unreadable or does not parse.
NotePortal(cfg) == IF cfg.file = "ok" THEN cfg.portal ELSE "portal"

\* Lines 333-337.
NoteBody(c, cfg) == IF c THEN <<"Successfully connected to ", NotePortal(cfg)>>
                    ELSE <<"The VPN connection has been closed.">>

\* Lines 346-360: the icon update attempted on an edge; loading
\* icons/connected.png may fail, and then the icon is left as it is.
IconUpdate(c, loads) == IF c THEN (IF loads THEN "connected" ELSE "loadfail")
                        ELSE "default"

IconAfter(upd, old) == IF upd \in {"connected", "default"} THEN upd ELSE old

\* Line 314: one more tick has seen a transition (counted up to MaxNotes).
CountEdge(n) == IF n < MaxNotes THEN n + 1 ELSE n

\* Lines 339-343: one more notification handed to the notification
\* plugin (recorded up to MaxNotes).
Record(ns, title) == IF Len(ns) < MaxNotes THEN Append(ns, title) ELSE ns

\* Line 361: the value committed on an edge, whether or not a
\* notification was shown.
\* A monitor that commits only when the notification was shown, and keeps
\* the old value (the opposite of the new one) otherwise.
MutCommitted(c, notified) == IF notified THEN c ELSE ~c

Committed(c, notified) == c

\* Line 294.
MonPgrep ==
    /\ app = "running"
    /\ mpc = "pgrep"
    /\ mPgrep' \in ProbeOutcomes(procs # {})
    /\ mFresh' = TRUE
    /\ mpc' = "ip"
    /\ UNCHANGED <<inflightHit, logVars, pipeVars, app, supVars, connVars,
                   discVars, statVars, mIp, last_connected, text, icon,
                   tickCur, tickPrev, tickIcon, tickNote, tickBody, edges,
                   notes, config, uiVars>>

\* Line 295.
MonIp ==
    /\ app = "running"
    /\ mpc = "ip"
    /\ mIp' \in ProbeOutcomes(tun)
    /\ mpc' = "update"
    /\ UNCHANGED <<inflightHit, logVars, pipeVars, app, supVars, connVars,
                   discVars, statVars, mPgrep, mFresh, last_connected, text,
                   icon, tickCur, tickPrev, tickIcon, tickNote, tickBody,
                   edges, notes, config, uiVars>>

\* Lines 297-364: derive the state, set the text, act on an edge, sleep;
\* the probe outputs are dropped at the end of the iteration.  The results
\* of show() and of loading the icon are discarded by the code: `shown` and
\* `loads` range over both.
MonUpdate ==
    /\ app = "running"
    /\ mpc = "update"
    /\ LET connected == MonitorConnected(mPgrep, mIp)
           notify == NotificationsEnabled(config)
       IN /\ text' = StatusText(connected)
          /\ tickCur' = connected
          /\ tickPrev' = tickCur
          /\ IF StatusChanged(connected, last_connected)
             THEN /\ tickNote' = IF notify THEN NoteTitle(connected) ELSE "none"
                  /\ tickBody' = IF notify THEN NoteBody(connected, config)
                                  ELSE "none"
                  /\ edges' = CountEdge(edges)
                  /\ notes' = IF notify THEN Record(notes, NoteTitle(connected))
                               ELSE notes
                  /\ \E loads \in BOOLEAN :
                       /\ tickIcon' = IconUpdate(connected, loads)
                       /\ icon' = IconAfter(IconUpdate(connected, loads), icon)
                  /\ \E shown \in BOOLEAN :
                       last_connected' = Committed(connected, notify /\ shown)
             ELSE /\ tickNote' = "none"
                  /\ tickBody' = "none"
                  /\ tickIcon' = "none"
                  /\ UNCHANGED <<icon, last_connected, edges, notes>>
    /\ mpc' = "pgrep"
    /\ mPgrep' = "notrun"
    /\ mIp' = "notrun"
    /\ UNCHANGED <<inflightHit, logVars, pipeVars, app, supVars, connVars,
                   discVars, statVars, mFresh, config, uiVars>>

----------------------------------------------------------------------------
(* The tray, window and exit handlers (lib.rs 246-285, 370-384, 398-416),  *)
(* all run by the main thread.                                             *)

\* Lines 255-271 and 398-416: neither handler names the managed state;
\* their steps do not wait for the mutex, whoever holds it.
\* Exit handlers that lock state.child before each pkill.
MutHandlerProceeds(m) == m = "free"

HandlerProceeds(m) == TRUE

\* The i-th pkill of the "quit" menu handler (lines 257-269).
\* A quit handler whose second pkill lacks the -9.
MutQuitCmd(i) == "soft"

QuitCmd(i) == IF i = 1 THEN "soft" ELSE "hard"

\* The i-th pkill of the ExitRequested handler (lines 401-413).
ExitCmd(i) == IF i = 1 THEN "soft" ELSE "hard"

\* Lines 247-254 and 274-282: unminimize, show, focus, raise.
Shown(w) == "visible"

\* Lines 372-375: prevent_close() and hide().
\* A close handler that prevents the close and leaves the window shown.
MutClosed(w) == w

Closed(w) == "hidden"

\* Lines 377-381: hide when the window reports minimized.
Resized(w, minimized) == IF minimized THEN "hidden" ELSE w

MenuShow ==
    /\ app = "running"
    /\ ui = "loop"
    /\ win' = Shown(win)
    /\ UNCHANGED <<inflightHit, logVars, pipeVars, app, supVars, connVars,
                   discVars, statVars, monVars, config, ui, uiKills>>

TrayClick ==
    /\ app = "running"
    /\ ui = "loop"
    /\ win' = Shown(win)
    /\ UNCHANGED <<inflightHit, logVars, pipeVars, app, supVars, connVars,
                   discVars, statVars, monVars, config, ui, uiKills>>

CloseRequested ==
    /\ app = "running"
    /\ ui = "loop"
    /\ win = "visible"
    /\ win' = Closed(win)
    /\ UNCHANGED <<inflightHit, logVars, pipeVars, app, supVars, connVars,
                   discVars, statVars, monVars, config, ui, uiKills>>

WindowResized ==
    /\ app = "running"
    /\ ui = "loop"
    /\ win = "visible"
    /\ \E minimized \in BOOLEAN : win' = Resized(win, minimized)
    /\ UNCHANGED <<inflightHit, logVars, pipeVars, app, supVars, connVars,
                   discVars, statVars, monVars, config, ui, uiKills>>

\* Lines 255-262: the "quit" item; the first pkill.
QuitSoft ==
    /\ app = "running"
    /\ ui = "loop"
    /\ HandlerProceeds(mutex)
    /\ procs' \in PkillOutcomes(QuitCmd(1), procs, permitted)
    /\ uiKills' = Append(uiKills, QuitCmd(1))
    /\ ui' = "quit_hard"
    /\ UNCHANGED <<inflightHit, logVars, pipeVars, app, tun, permitted,
                   nextPid, child, mutex, killReq, logFile, connVars,
                   discVars, statVars, monVars, config, win>>

\* Lines 263-269: the second pkill.
QuitHard ==
    /\ app = "running"
    /\ ui = "quit_hard"
    /\ HandlerProceeds(mutex)
    /\ procs' \in PkillOutcomes(QuitCmd(2), procs, permitted)
    /\ uiKills' = Append(uiKills, QuitCmd(2))
    /\ ui' = "quit_exit"
    /\ UNCHANGED <<inflightHit, logVars, pipeVars, app, tun, permitted,
                   nextPid, child, mutex, killReq, logFile, connVars,
                   discVars, statVars, monVars, config, win>>

\* Line 270: app.exit(0) asks the event loop to exit, which raises
\* ExitRequested; when the request cannot be posted the process exits
\* at once.
QuitExit ==
    /\ app = "running"
    /\ ui = "quit_exit"
    /\ \/ ui' = "exit_requested" /\ app' = app
       \/ ui' = "ended" /\ app' = "exited"
    /\ UNCHANGED <<inflightHit, logVars, pipeVars, supVars, connVars,
                   discVars, statVars, monVars, config, uiKills, win>>

\* Lines 399-406: RunEvent::ExitRequested, raised by app.exit or by the
\* runtime itself; the first pkill.
ExitSoft ==
    /\ app = "running"
    /\ ui \in {"loop", "exit_requested"}
    /\ HandlerProceeds(mutex)
    /\ procs' \in PkillOutcomes(ExitCmd(1), procs, permitted)
    /\ uiKills' = Append(uiKills, ExitCmd(1))
    /\ ui' = "exit_hard"
    /\ UNCHANGED <<inflightHit, logVars, pipeVars, app, tun, permitted,
                   nextPid, child, mutex, killReq, logFile, connVars,
                   discVars, statVars, monVars, config, win>>

\* Lines 407-413: the second pkill.
ExitHard ==
    /\ app = "running"
    /\ ui = "exit_hard"
    /\ HandlerProceeds(mutex)
    /\ procs' \in PkillOutcomes(ExitCmd(2), procs, permitted)
    /\ uiKills' = Append(uiKills, ExitCmd(2))
    /\ ui' = "exit_end"
    /\ UNCHANGED <<inflightHit, logVars, pipeVars, app, tun, permitted,
                   nextPid, child, mutex, killReq, logFile, connVars,
                   discVars, statVars, monVars, config, win>>

\* The handler has returned: the event loop ends and the process with it.
ExitEnd ==
    /\ app = "running"
    /\ ui = "exit_end"
    /\ ui' = "ended"
    /\ app' = "exited"
    /\ UNCHANGED <<inflightHit, logVars, pipeVars, supVars, connVars,
                   discVars, statVars, monVars, config, uiKills, win>>

\* The application dies without running any handler (panic, SIGKILL).
Crash ==
    /\ app = "running"
    /\ app' = "crashed"
    /\ UNCHANGED <<inflightHit, logVars, pipeVars, supVars, connVars,
                   discVars, statVars, monVars, config, uiVars>>

----------------------------------------------------------------------------
(* The environment.                                                        *)

\* An openconnect process ends on its own (authentication failure, network
\* loss, an operator's kill).
ChildExits ==
    /\ app = "running"
    /\ \E p \in procs : procs' = procs \ {p}
    /\ UNCHANGED <<inflightHit, logVars, pipeVars, app, tun, permitted,
                   nextPid, child, mutex, killReq, logFile, connVars,
                   discVars, statVars, monVars, config, uiVars>>

\* A child spawned by connect_vpn writes to its stdout or stderr, which
\* are the log file opened in append mode (lines 62-78).
ChildWrites ==
    /\ app = "running"
    /\ procs \cap Pids # {}
    /\ logFile # "absent"
    /\ logFile' = "data"
    /\ cleared' = "no"
    /\ UNCHANGED <<inflightHit, lpc, lres, rpc, rres, pipeVars, app, procs,
                   tun, permitted, nextPid, child, mutex, killReq, connVars,
                   discVars, statVars, monVars, config, uiVars>>

\* A tun interface appears (the tunnel comes up) or disappears.
TunChanges ==
    /\ app = "running"
    /\ tun' = ~tun
    /\ UNCHANGED <<inflightHit, logVars, pipeVars, app, procs, permitted,
                   nextPid, child, mutex, killReq, logFile, connVars,
                   discVars, statVars, monVars, config, uiVars>>

----------------------------------------------------------------------------

Init ==
    /\ app = "running"
    /\ procs \in {{}, {Leftover}}
    /\ tun \in BOOLEAN
    /\ permitted \in BOOLEAN
    /\ nextPid = 1
    /\ child = {}
    /\ mutex = "free"
    /\ killReq = {}
    /\ logFile = "absent"
    /\ cpc = [t \in ConnThreads |-> "idle"]
    /\ cprior = [t \in ConnThreads |-> {}]
    /\ cchild = [t \in ConnThreads |-> {}]
    /\ cres = [t \in ConnThreads |-> "none"]
    /\ dpc = "idle"
    /\ dres = "none"
    /\ dsteps = <<>>
    /\ spawnedSinceHard = FALSE
    /\ beganSinceReturn = FALSE
    /\ spc = "idle"
    /\ sPgrep = "notrun"
    /\ sIp = "notrun"
    /\ sres = "none"
    /\ mpc = "pgrep"
    /\ mPgrep = "notrun"
    /\ mIp = "notrun"
    /\ mFresh = FALSE
    /\ last_connected = FALSE
    /\ text = TextInitial
    /\ icon = "default"
    /\ tickCur = FALSE
    /\ tickPrev = FALSE
    /\ tickIcon = "none"
    /\ tickNote = "none"
    /\ tickBody = "none"
    /\ edges = 0
    /\ notes = <<>>
    /\ config \in {NoFile} \cup ConfigFiles
    /\ ui = "loop"
    /\ uiKills = <<>>
    /\ win = "visible"
    /\ passwords \in (SUBSET Passwords) \ {{}}
    /\ stdinOpen = {}
    /\ stdinFed = {}
    /\ lpc = "idle"
    /\ lres = "none"
    /\ cleared = "no"
    /\ rpc = "idle"
    /\ rres = "none"
    /\ inflightHit = {}

ConnectBy(t) ==
    ConnectBegin(t) \/ ConnectPrep(t) \/ ConnectSpawn(t) \/ ConnectStore(t)

Connect == \E t \in ConnThreads : ConnectBy(t)

Disconnect == DiscSoft \/ DiscSleep \/ DiscHard \/ DiscSweep

Status == StatusPgrep \/ StatusIp

SaveConfig == SaveConfigTruncate \/ SaveConfigWrite

Monitor == MonPgrep \/ MonIp \/ MonUpdate

ReadLogs == ReadLogsCheck \/ ReadLogsRead

ClearLogs == ClearLogsCheck \/ ClearLogsWrite

Window == MenuShow \/ TrayClick \/ CloseRequested \/ WindowResized

Quit == QuitSoft \/ QuitHard \/ QuitExit

ExitRequested == ExitSoft \/ ExitHard \/ ExitEnd

Environment == ChildExits \/ TunChanges

Next == Connect \/ Disconnect \/ Status \/ SaveConfig \/ Monitor \/ Window
        \/ Quit \/ ExitRequested \/ Crash \/ Environment
        \/ ReadLogs \/ ClearLogs \/ ChildWrites

Spec == Init /\ [][Next]_vars

\* The supervisor with the main thread's handlers: the monitor, the status
\* command and save_config, which touch none of their variables, are left
\* at rest.
InitSup == Init /\ ~tun /\ config = NoFile /\ passwords = {"absent"}

NextSup == Connect \/ Disconnect \/ Window \/ Quit \/ ExitRequested \/ Crash
           \/ ChildExits

SpecSup == InitSup /\ [][NextSup]_vars

\* disconnect_vpn, one connect thread and the monitor thread, with the
\* environment changing what the monitor observes.
NextDisc == ConnectBy("c1") \/ Disconnect \/ Monitor \/ Environment

SpecDisc == InitSup /\ [][NextDisc]_vars

\* get_vpn_status with one connect thread, disconnect_vpn and the
\* environment changing what it observes.
NextStatus == ConnectBy("c1") \/ Disconnect \/ Status \/ Environment

SpecStatus == InitSup /\ [][NextStatus]_vars

\* The monitor thread with save_config rewriting the configuration file
\* and the environment changing what the probes see (the process is one
\* that was found running); connect_vpn runs beside the monitor in
\* SpecNote.
InitMon == Init /\ permitted /\ passwords = {"absent"}

NextMon == SaveConfig \/ Monitor \/ Environment

SpecMon == InitMon /\ [][NextMon]_vars

\* connect_vpn on both command threads with disconnect_vpn and the
\* children ending on their own, for every choice of passwords.
InitPipe == Init /\ ~tun /\ config = NoFile

NextPipe == Connect \/ Disconnect \/ ChildExits

SpecPipe == InitPipe /\ [][NextPipe]_vars
----------------------------------------------------------------------------
(* Properties of the supervisor and the exit handlers (SpecSup).           *)

\* Children spawned by connect_vpn so far.
Spawned == 1..(nextPid - 1)

AllConnectsReturned == \A t \in ConnThreads : cpc[t] = "idle"

\* C1: for any interleaving of concurrent connect calls, once all calls
\* have returned at most one child handle is stored, every other child
\* that was spawned has been sent a kill, and a call that replaces a handle
\* has sent it the kill before it spawns its own child.
C1_AtMostOneHandle ==
    /\ Cardinality(child) <= 1
    /\ AllConnectsReturned => (Spawned \ child) \subseteq killReq
    /\ \A t \in ConnThreads :
         cpc[t] \in {"spawn", "store"} => cprior[t] \subseteq killReq

\* Two calls on different threads have both succeeded, and the child of the
\* first one was replaced.
C1_Witness ==
    /\ AllConnectsReturned
    /\ cres["c1"] = "Ok" /\ cres["c2"] = "Ok"
    /\ child # {} /\ killReq # {}
    /\ dres = "none" /\ dpc = "idle"

\* C2: when a connect succeeds while holding a handle taken from a
\* previous connect, no openconnect process spawned by an earlier connect
\* is alive any more: the only child that can exist is the one just spawned.
C2_ReconnectSupersedes ==
    [][\A t \in ConnThreads :
         (cpc[t] = "store" /\ cpc'[t] = "idle" /\ cprior[t] # {})
            => (procs' \cap Pids) \subseteq cchild[t]]_vars

\* C3: when the application has ended through the Quit item or the
\* exit-requested event, the soft kill and then the hard kill have been
\* issued, in that order, as the last commands of the main thread.
C3_KillPairBeforeExit ==
    app = "exited" =>
        /\ Len(uiKills) >= 2
        /\ SubSeq(uiKills, Len(uiKills) - 1, Len(uiKills)) = <<"soft", "hard">>
        /\ uiKills \in {<<"soft", "hard">>, <<"soft", "hard", "soft", "hard">>}

\* Quit has run its pair and the exit-requested handler it raised has run
\* its own before the process ended.
C3_Witness == app = "exited" /\ Len(uiKills) = 4

\* C4 as stated: after an application crash, a normal quit, a window close
\* or a reconnect, no child spawned by the supervisor remains alive (after a
\* reconnect: none but the new one).
C4_TerminatedOnEveryExitPath ==
    [][/\ (app = "running" /\ app' = "crashed") => procs' \cap Pids = {}
       /\ (ui = "quit_exit" /\ ui' # "quit_exit") => procs' \cap Pids = {}
       /\ (win = "visible" /\ win' = "hidden") => procs' \cap Pids = {}
       /\ \A t \in ConnThreads :
            (cpc[t] = "store" /\ cpc'[t] = "idle")
               => cprior[t] \cap procs' = {}]_vars

\* C4 as amended: termination is requested, not guaranteed, and only on
\* three of the four paths.  Quit and exit-requested issue both pkills, and
\* when sudo permits them no process is left at the moment the hard kill
\* returns; a reconnect has sent kill() to the handle it replaces before it
\* spawns; a window close keeps the application running and, like a crash,
\* sends no kill and leaves every process as it was.
C4_TerminationRequested ==
    [][/\ (ui' \in {"quit_exit", "exit_end"} /\ ui' # ui)
            => /\ Len(uiKills') >= 2
               /\ uiKills'[Len(uiKills')] = "hard"
               /\ uiKills'[Len(uiKills') - 1] = "soft"
               /\ permitted => procs' = {}
       /\ \A t \in ConnThreads :
            (cpc[t] = "spawn" /\ cpc'[t] = "store") => cprior[t] \subseteq killReq
       /\ (win' # win \/ app' = "crashed")
            => /\ procs' = procs
               /\ killReq' = killReq
               /\ uiKills' = uiKills
       /\ win' # win => app' = "running"]_vars

\* The application has ended through an exit handler whose kills were
\* permitted, after the supervisor had spawned a child.
C4_Witness ==
    app = "exited" /\ permitted /\ nextPid > 1 /\ procs = {} /\ win = "hidden"

\* C5: with the privileged kills permitted, the process table holds no
\* openconnect process when the Quit handler returns, whatever connect
\* calls are in flight.
C5_NoProcessAfterQuit ==
    [][(ui = "quit_exit" /\ ui' # "quit_exit" /\ permitted) => procs' = {}]_vars

\* C10: whenever connect returns an error the handle is None, the handle
\* found on entry (if any) has been sent a kill, and the call has spawned no
\* child.
C10_ErrorLeavesNone ==
    [][\A t \in ConnThreads :
         (cpc[t] # "idle" /\ cpc'[t] = "idle" /\ cres'[t] # "Ok")
            => /\ child' = {}
               /\ cprior[t] \subseteq killReq'
               /\ cchild[t] = {}
               /\ nextPid' = nextPid
               /\ procs' = procs]_vars

\* The second thread's call failed at spawn after it had taken and killed
\* the handle stored by the first thread's successful call.
C10_Witness ==
    /\ AllConnectsReturned
    /\ cres["c1"] = "Ok" /\ cres["c2"] = "ErrSpawn"
    /\ child = {} /\ killReq = {1} /\ nextPid = 2
    /\ dres = "none" /\ dpc = "idle"

----------------------------------------------------------------------------
(* Properties of disconnect_vpn and the monitor (SpecDisc).                *)

DisconnectReturned == dpc = "idle" /\ dres = "Ok"

\* A tick has completed whose probes both ran after disconnect returned.
FreshTickDone == mFresh /\ mpc = "pgrep"

\* No run of get_vpn_status started in this state can return Ok(true).
StatusCannotBeTrue ==
    \A pg \in ProbeOutcomes(procs # {}), ip \in ProbeOutcomes(tun) :
        GetVpnStatus(pg, ip) # "OkTrue"

\* C6: after disconnect has returned with the privileged kills permitted,
\* and no connect call begun since, the next monitor tick derives false and
\* shows Disconnected.
C6_DisconnectedByNextTick ==
    (permitted /\ DisconnectReturned /\ ~beganSinceReturn /\ FreshTickDone)
        => (text = StatusText(FALSE) /\ ~last_connected)

\* What disconnect does achieve: unless a connect call has spawned a child
\* after the hard kill, no openconnect process is left when disconnect
\* returns, status() cannot be true from then on, and the next monitor tick
\* derives false and shows Disconnected.
DisconnectedUnlessRespawned ==
    (permitted /\ DisconnectReturned /\ ~spawnedSinceHard)
        => /\ procs = {}
           /\ StatusCannotBeTrue
           /\ FreshTickDone => (text = StatusText(FALSE) /\ ~last_connected)

\* C18: when a connect call returns Ok while disconnect calls that
\* started before its return are under way or done, the child it spawned
\* is the stored handle and has been sent no termination request: neither
\* a signal of disconnect's pkill pair nor a kill() through the handle.
C18_DisconnectSparesNewSession ==
    [][(cpc["c1"] = "store" /\ cpc'["c1"] = "idle" /\ cres'["c1"] = "Ok")
         => /\ child' = cchild["c1"]
            /\ cchild["c1"] \cap killReq' = {}
            /\ cchild["c1"] \cap inflightHit = {}]_vars

----------------------------------------------------------------------------
(* Properties of get_vpn_status (SpecStatus).                              *)

BoolResult(b) == IF b THEN "OkTrue" ELSE "OkFalse"

StatusReturned == spc = "idle" /\ sres # "none"

\* C7: when neither probe fails, get_vpn_status returns process_present
\* AND tun_interface_present, whatever the child handle holds, and the
\* monitor's `connected` is the same value for the same probe outputs.
C7_StatusIsProcAndTun ==
    /\ (StatusReturned /\ sPgrep # "err" /\ sIp # "err")
          => sres = BoolResult(sPgrep = "yes" /\ sIp = "yes")
    /\ \A pg \in {"yes", "no"}, ip \in {"yes", "no"} :
          /\ GetVpnStatus(pg, ip) = BoolResult(pg = "yes" /\ ip = "yes")
          /\ GetVpnStatus(pg, ip) = BoolResult(MonitorConnected(pg, ip))

\* get_vpn_status returns true while the supervisor holds no handle (the
\* process is the one left over from an earlier run).
C7_Witness ==
    /\ StatusReturned /\ sres = "OkTrue"
    /\ sPgrep = "yes" /\ sIp = "yes"
    /\ child = {} /\ nextPid = 1

\* C8: get_vpn_status never returns an error: a probe that cannot be run
\* yields Ok(false), as it does in the monitor.
C8_BiasToFalse ==
    /\ StatusReturned => sres \in {"OkTrue", "OkFalse"}
    /\ (StatusReturned /\ (sPgrep = "err" \/ sIp = "err")) => sres = "OkFalse"
    /\ \A pg \in {"yes", "no", "err"}, ip \in {"yes", "no", "err"} :
          (pg = "err" \/ ip = "err") => ~MonitorConnected(pg, ip)

----------------------------------------------------------------------------
(* Properties of the monitor thread (SpecMon).                             *)

\* C9: a tick whose derived state equals that of the previous tick
\* (Disconnected before the first) updates no icon and dispatches no
\* notification; a tick whose derived state differs attempts the icon
\* update for the new state and dispatches at most the notification for
\* it; the value retained for the next comparison is the derived state.
C9_EdgeTriggered ==
    /\ tickCur = tickPrev => (tickIcon = "none" /\ tickNote = "none")
    /\ tickCur # tickPrev
          => /\ tickIcon \in {IconUpdate(tickCur, TRUE), IconUpdate(tickCur, FALSE)}
             /\ tickNote \in {"none", NoteTitle(tickCur)}
    /\ mpc = "pgrep" => last_connected = tickCur

\* Two consecutive ticks derived Connected: the second one changed nothing,
\* the icon set by an earlier edge is still shown.
C9_Witness ==
    /\ mpc = "pgrep" /\ tickCur /\ tickPrev
    /\ tickIcon = "none" /\ tickNote = "none"
    /\ icon = "connected" /\ text = StatusText(TRUE)

\* get_vpn_status and the monitor thread beside one connect thread, with
\* no process left over from an earlier run.
InitObs == Init /\ procs = {} /\ config = NoFile /\ passwords = {"absent"}

NextObs == ConnectBy("c1") \/ Status \/ Monitor \/ Environment

SpecObs == InitObs /\ [][NextObs]_vars

\* The monitor thread beside one connect thread and the environment, the
\* configuration file being left as it is found.
InitNote == Init /\ permitted /\ passwords = {"absent"}

NextNote == ConnectBy("c1") \/ Monitor \/ Environment

SpecNote == InitNote /\ [][NextNote]_vars

\* The main thread's handlers (window, tray, quit, exit) beside one
\* connect thread and disconnect_vpn.
NextWin == ConnectBy("c1") \/ Disconnect \/ Window \/ Quit \/ ExitRequested
           \/ Crash \/ ChildExits

SpecWin == InitSup /\ [][NextWin]_vars

\* The same handlers without crashes, under the fairness the main thread
\* provides: once a handler has started, each of its pkills returns and
\* its next statement runs; app.exit(0) is followed by the exit-requested
\* event or by the end of the process.  No fairness is assumed of the
\* command threads: a connect call may hold the mutex for ever.
NextQuit == ConnectBy("c1") \/ Disconnect \/ Window \/ Quit \/ ExitRequested
            \/ ChildExits

SpecQuit ==
    /\ InitSup
    /\ [][NextQuit]_vars
    /\ WF_vars(QuitHard)
    /\ WF_vars(QuitExit)
    /\ WF_vars(ExitSoft /\ ui = "exit_requested")
    /\ WF_vars(ExitHard)
    /\ WF_vars(ExitEnd)

\* read_logs and clear_logs with one connect thread, disconnect_vpn and
\* the children writing to the log and ending on their own.
NextLog == ConnectBy("c1") \/ Disconnect \/ ReadLogs \/ ClearLogs
           \/ ChildWrites \/ ChildExits

SpecLog == InitSup /\ [][NextLog]_vars

----------------------------------------------------------------------------
(* Properties of disconnect_vpn and of the child's standard input, with   *)
(* both command threads connecting (SpecPipe).                             *)

\* C12: disconnect issues the soft kill, pauses, issues the hard kill and
\* then clears the handle, in that order, calling kill() on the child it
\* held; it never returns an error, whatever the kills achieved, and at the
\* moment it returns the handle is None.
C12_DisconnectOrderAndOk ==
    [][/\ dres' \in {"none", "Ok"}
       /\ (dpc = "sweep" /\ dpc' = "idle")
            => /\ dres' = "Ok"
               /\ dsteps' = <<"soft", "sleep", "hard", "clear">>
               /\ child' = {}
               /\ child \subseteq killReq']_vars

\* disconnect has returned Ok although sudo refused both pkills and the
\* kill() on the handle it took left the child (the only one ever spawned)
\* alive.
C12_Witness ==
    /\ DisconnectReturned /\ ~permitted
    /\ cres["c1"] = "Ok" /\ nextPid = 2
    /\ cres["c2"] = "none" /\ cpc["c2"] = "idle"
    /\ child = {} /\ killReq = {1} /\ 1 \in procs

\* C11: when a connect call returns Ok, the stdin write end of the child it
\* stores is closed whether or not a password was given, and the child has
\* been sent the password and a newline if one was given and nothing
\* otherwise.
C11_StdinClosedAtStore ==
    [][\A t \in ConnThreads :
         (cpc[t] = "store" /\ cpc'[t] = "idle" /\ cres'[t] = "Ok")
            => /\ cchild[t] \cap stdinOpen' = {}
               /\ passwords = {"present"} => cchild[t] \subseteq stdinFed'
               /\ passwords = {"absent"} => cchild[t] \cap stdinFed' = {}]_vars

----------------------------------------------------------------------------
(* Properties of the log commands (SpecLog).                               *)

\* C13: clear_logs never creates the log file and is idempotent: a call
\* that returns Ok leaves the log empty if it existed and absent if it did
\* not, and so does a second call made right after it; read_logs returns
\* "No logs found." exactly when the file does not exist, and the file does
\* not exist until a connect call has created it.
C13_LogOperations ==
    [][/\ (lpc' # lpc \/ lres' # lres)
            => (logFile' = "absent") = (logFile = "absent")
       /\ (lpc' = "idle" /\ lres' = "Ok" /\ (lpc = "write" \/ lres # "Ok"))
            => /\ logFile' = IF logFile = "absent" THEN "absent" ELSE "empty"
               /\ cleared # "no" => logFile' = logFile
       /\ cleared' # "no" => logFile' \in {"absent", "empty"}
       /\ (rpc' = "idle" /\ rres' \notin LogErrors
              /\ (rpc = "read" \/ rres' # rres))
            => ((rres' = NoLogsFound) = (rpc = "idle" /\ logFile = "absent"))
       /\ (\A t \in ConnThreads : cpc'[t] = "idle" /\ cres'[t] = "none")
            => logFile' = "absent"]_vars

\* Two clear_logs calls in a row have returned Ok on a log that a connect
\* call had created and written: it is empty, and a read_logs returned its
\* (empty) contents, not the "No logs found." text.
C13_Witness ==
    /\ cleared = "twice" /\ lres = "Ok" /\ lpc = "idle"
    /\ logFile = "empty"
    /\ rpc = "idle" /\ rres = LogContents("empty")

----------------------------------------------------------------------------
(* Properties of the observers beside connect_vpn (SpecObs).               *)

\* C14: no step of get_vpn_status or of a monitor tick changes the mutex,
\* the child handle or the kills sent through it, and while the mutex is
\* held the next step of each of them can always be taken: they neither
\* block nor deadlock.
C14_ObserversLockFree ==
    [][/\ (statVars' # statVars \/ monVars' # monVars)
            => /\ mutex' = mutex
               /\ child' = child
               /\ killReq' = killReq
               /\ cchild' = cchild /\ cprior' = cprior
       /\ mutex # "free"
            => /\ spc = "idle" => ENABLED StatusPgrep
               /\ spc = "ip" => ENABLED StatusIp
               /\ mpc = "pgrep" => ENABLED MonPgrep
               /\ mpc = "ip" => ENABLED MonIp
               /\ mpc = "update" => ENABLED MonUpdate]_vars

\* While the first connect call still holds the mutex, after it spawned
\* the only child, a get_vpn_status call and a monitor tick have both seen
\* that child and completed with true.
C14_Witness ==
    /\ mutex = "c1" /\ cpc["c1"] = "store" /\ nextPid = 2 /\ child = {}
    /\ spc = "idle" /\ sPgrep = "yes" /\ sres = "OkTrue"
    /\ mpc = "pgrep" /\ tickCur /\ text = StatusText(TRUE)

\* C15: on a tick that sees a transition the monitor dispatches a
\* notification exactly when the configuration read at that tick does not
\* say notifications_enabled = false; a missing field, a missing file and
\* a file that does not parse count as enabled, and the body names the
\* portal of the configuration or "portal" when there is none; with
\* notifications_enabled = false nothing is dispatched, but the icon is
\* swapped and last_connected committed all the same.
C15_NotificationGating ==
    [][(mpc = "update" /\ mpc' = "pgrep")
         => LET edge == tickCur' # last_connected
                disabled == config.file = "ok" /\ config.ne = "false"
            IN /\ (tickNote' # "none") = (edge /\ ~disabled)
               /\ tickNote' # "none"
                    => /\ tickNote' = NoteTitle(tickCur')
                       /\ tickCur' =>
                            tickBody' = <<"Successfully connected to ",
                                          IF config.file = "ok" THEN Portal
                                          ELSE "portal">>
                       /\ ~tickCur' =>
                            tickBody' = <<"The VPN connection has been closed.">>
               /\ (edge /\ disabled)
                    => /\ tickNote' = "none" /\ tickBody' = "none"
                       /\ tickIcon' # "none"
                       /\ last_connected' = tickCur']_vars

\* A tick saw the transition to Connected while the saved configuration
\* had notifications_enabled = false: nothing was dispatched, the icon was
\* swapped and the new state retained.
C15_Witness ==
    /\ mpc = "pgrep" /\ tickCur /\ ~tickPrev
    /\ config.file = "ok" /\ config.ne = "false"
    /\ tickNote = "none" /\ tickIcon = "connected" /\ icon = "connected"
    /\ last_connected

----------------------------------------------------------------------------
(* Properties of the notifications over a run (SpecNote).                  *)

\* C16: with notifications enabled, a tick dispatches a notification
\* exactly when its derived state differs from that of the previous tick
\* (Disconnected before the first), so the notifications dispatched are as
\* many as those ticks, and their titles alternate: "VPN Connected" first,
\* then "VPN Disconnected", and so on.
C16_OneNotificationPerEdge ==
    NotificationsEnabled(config)
        => /\ (tickNote # "none") = (tickCur # tickPrev)
           /\ Len(notes) = edges
           /\ \A i \in 1..Len(notes) :
                notes[i] = IF i % 2 = 1 THEN "VPN Connected"
                           ELSE "VPN Disconnected"

\* Three transitions have been seen with notifications_enabled = true in
\* the configuration file: Connected, Disconnected, Connected.
C16_Witness ==
    /\ config.file = "ok" /\ config.ne = "true"
    /\ edges = 3
    /\ notes = <<"VPN Connected", "VPN Disconnected", "VPN Connected">>
    /\ tickCur /\ ~tickPrev /\ tickNote = "VPN Connected"

----------------------------------------------------------------------------
(* Properties of the window and tray handlers (SpecWin).                   *)

\* C17: a close request hides the window and so does a resize that reports
\* the window minimized; a step that hides the window leaves the
\* application running and sends no kill of any kind; the tray click and
\* the Show item make the window visible from either state; and the event
\* loop ends only at the end of the Quit or of the exit-requested handler.
C17_WindowStateMachine ==
    [][/\ \A w \in {"visible", "hidden"} :
            /\ Closed(w) = "hidden"
            /\ Resized(w, TRUE) = "hidden" /\ Resized(w, FALSE) = w
            /\ Shown(w) = "visible"
       /\ win' # win
            => /\ app' = "running" /\ ui' = ui
               /\ procs' = procs /\ child' = child
               /\ killReq' = killReq /\ uiKills' = uiKills
       /\ (app = "running" /\ ui = "loop")
            => ENABLED (MenuShow \/ TrayClick)
       /\ (app = "running" /\ app' = "exited")
            => ui \in {"quit_exit", "exit_end"}]_vars

\* The window was hidden while a session was up: the application is still
\* running with the child alive and its handle stored, and no kill has been
\* sent.
C17_Witness ==
    /\ win = "hidden" /\ app = "running" /\ ui = "loop"
    /\ child = {1} /\ procs = {1} /\ cres["c1"] = "Ok"
    /\ killReq = {} /\ uiKills = <<>> /\ dsteps = <<>>

\* C19: at the end of every monitor tick the tray text and last_connected
\* both equal the state derived from that tick's probes: the text is set
\* on every tick and last_connected on every edge, whether or not a
\* notification was enabled or shown and whether or not the connected icon
\* could be loaded; a tick that sees no edge leaves the icon as it is, so a
\* failed load is not tried again while the state stays the same.
C19_TickCommitsDerivedState ==
    [][(mpc = "update" /\ mpc' = "pgrep")
         => LET derived == MonitorConnected(mPgrep, mIp)
            IN /\ text' = StatusText(derived)
               /\ last_connected' = derived
               /\ tickCur' = derived
               /\ derived = last_connected
                    => (icon' = icon /\ tickIcon' = "none")
               /\ tickIcon' = "loadfail" => icon' = icon]_vars

\* With notifications_enabled = false, a tick saw the transition to
\* Connected and could not load the connected icon; a later tick derived
\* Connected again: the state was retained, no notification was sent and
\* the default icon is still shown.
C19_Witness ==
    /\ mpc = "pgrep" /\ tickCur /\ tickPrev
    /\ last_connected /\ text = StatusText(TRUE)
    /\ config.file = "ok" /\ config.ne = "false"
    /\ edges = 1 /\ notes = <<>>
    /\ icon = "default" /\ tickIcon = "none"

----------------------------------------------------------------------------
(* Termination of the application through Quit (SpecQuit).                 *)

\* C20: no step of the Quit handler or of the exit-requested handler
\* touches the mutex or the child handle, and once the Quit handler has
\* started the application eventually ends, whatever the command threads
\* do or fail to do meanwhile.
C20_QuitTerminates ==
    /\ [][ui' # ui => /\ mutex' = mutex
                      /\ child' = child
                      /\ killReq' = killReq]_vars
    /\ (ui = "quit_hard") ~> (app = "exited")

\* The application has ended through Quit and the exit-requested handler
\* while a connect call still held the mutex and a disconnect call was
\* in its pause between the two kills.
C20_Witness ==
    /\ app = "exited" /\ Len(uiKills) = 4
    /\ mutex = "c1" /\ cpc["c1"] = "store"
    /\ dpc = "sleep"

====
